---- MODULE Spec2Model ----
(***************************************************************************)
(* chipmatch (src/src/main.rs): matching a PLINK .bim variant list against *)
(* the strand files found in a directory of ZIP archives.                  *)
(*                                                                         *)
(* Five specifications share this module, one per component:               *)
(*   SpecAlleles  match_alleles / match_set / flip_alleles                 *)
(*   SpecBim      the counting loop and the ratios of match_bim            *)
(*   SpecZip      the entry loop and the line loop of                      *)
(*                read_variants_from_zip                                   *)
(*   SpecRank     the BinaryHeap of MatchResults: push, then pop to empty  *)
(*   Spec         main: scan every archive, then emit (and extract)        *)
(*                                                                         *)
(* Characters are one-character strings, tokens of a line are sequences of *)
(* characters, f32 ratios are kept as exact fractions [num, den]; den = 0  *)
(* stands for the non-finite results (NaN for 0/0, +inf for n/0).          *)
(***************************************************************************)
EXTENDS Integers, Sequences, FiniteSets, Bags

VARIABLES
    al_left, al_right, al_strand, al_result,
    bim, variants, bim_idx, cnt, bim_res,
    zip_entries, zip_i, zip_read, var, zvariants, strand_file_name, zip_pc,
    ziplist, scan_i, results, strandmap, extract_strands, emitted, extracted, pc

vars_alleles == <<al_left, al_right, al_strand, al_result>>
vars_bim == <<bim, variants, bim_idx, cnt, bim_res>>
vars_zip == <<zip_entries, zip_i, zip_read, var, zvariants, strand_file_name, zip_pc>>
vars_main == <<ziplist, scan_i, results, strandmap, extract_strands, emitted, extracted, pc>>
vars == <<vars_alleles, vars_bim, vars_zip, vars_main>>

----------------------------------------------------------------------------
(* Bounds of the model *)

MaxBim == 3
MaxLines == 2
MaxRecs == 3
MaxZips == 2
MaxExtract == 2

----------------------------------------------------------------------------
(* Allele/strand classifier *)

Bases == {"A", "C", "G", "T", "X"}
AllelePairs == Bases \X Bases
StrandMarkers == {"+", "-", "*"}

match_set(left, right) ==
    /\ (left[1] = right[1] \/ left[1] = right[2])
    /\ (left[2] = right[1] \/ left[2] = right[2])

flip_base(c) ==
    CASE c = "A" -> "T"
      [] c = "C" -> "G"
      [] c = "G" -> "C"
      [] c = "T" -> "A"
      [] OTHER -> "X"

flip_alleles(i) == <<flip_base(i[1]), flip_base(i[2])>>

\* Mutant: the Original test is made before the ATCG test.
match_alleles_original_first(left, right, strand) ==
    IF match_set(left, right) THEN "Original"
    ELSE IF match_set(left, flip_alleles(left)) /\ match_set(right, flip_alleles(right))
    THEN "ATCG"
    ELSE IF match_set(left, flip_alleles(right)) /\ strand = "-" THEN "Plus"
    ELSE "Mismatch"

\* Mutant: the strand marker is not consulted for Plus.
match_alleles_any_strand(left, right, strand) ==
    IF match_set(left, flip_alleles(left)) /\ match_set(right, flip_alleles(right))
    THEN "ATCG"
    ELSE IF match_set(left, right) THEN "Original"
    ELSE IF match_set(left, flip_alleles(right)) THEN "Plus"
    ELSE "Mismatch"

match_alleles(left, right, strand) ==
    IF match_set(left, flip_alleles(left)) /\ match_set(right, flip_alleles(right))
    THEN "ATCG"
    ELSE IF match_set(left, right) THEN "Original"
    ELSE IF match_set(left, flip_alleles(right)) /\ strand = "-" THEN "Plus"
    ELSE "Mismatch"

----------------------------------------------------------------------------
(* Tokens and number parsing *)

Digits == {"0", "1", "2", "3", "4", "5", "6", "7", "8", "9"}

DigitValue(c) ==
    CASE c = "0" -> 0 [] c = "1" -> 1 [] c = "2" -> 2 [] c = "3" -> 3
      [] c = "4" -> 4 [] c = "5" -> 5 [] c = "6" -> 6 [] c = "7" -> 7
      [] c = "8" -> 8 [] c = "9" -> 9

RECURSIVE DigitsValue(_)
DigitsValue(s) ==
    IF s = <<>> THEN 0
    ELSE 10 * DigitsValue(SubSeq(s, 1, Len(s) - 1)) + DigitValue(s[Len(s)])

\* u64::from_str_radix(s, 10): an optional "+", then at least one digit.
\* (The tokens of the model are short, so the u64 overflow error is not met.)
from_str_radix(s) ==
    LET body == IF s # <<>> /\ s[1] = "+" THEN SubSeq(s, 2, Len(s)) ELSE s
    IN  IF body # <<>> /\ \A k \in 1..Len(body) : body[k] \in Digits
        THEN [ok |-> TRUE, val |-> DigitsValue(body)]
        ELSE [ok |-> FALSE, val |-> 0]

chromosome_to_number(s) ==
    IF from_str_radix(s).ok THEN from_str_radix(s).val
    ELSE CASE s = <<"X">> -> 23
           [] s = <<"Y">> -> 24
           [] s = <<"X", "Y">> -> 25
           [] s = <<"M">> \/ s = <<"M", "T">> -> 26
           [] OTHER -> 0

----------------------------------------------------------------------------
(* read_variants_from_zip *)

Names == {"rs1", "rs2"}

\* A field that the line does not have (split_whitespace yields no empty token).
Absent == <<>>

ChromTokens == {<<"7">>, <<"X">>, <<"U", "n">>}
PosTokens == {<<"1", "0", "0">>, <<"n", "a">>}
StrandTokens == {<<"+">>, <<"-">>}
AlleleTokens == {<<"A", "G">>, Absent}

\* The well-formed strand-file lines of the model: identifier, chromosome,
\* position, (a skipped field), strand marker and, optionally, the alleles.
Lines == [name : Names, chrom : ChromTokens, pos : PosTokens,
          strand : StrandTokens, alleles : AlleleTokens]

\* The template record `var` as it is declared before the loops.
VarTemplate == [chromosome |-> 0, position |-> 0, alleles |-> <<"X", "X">>, strand |-> "X"]

EmptyMap == [x \in {} |-> 0]

\* HashMap::insert
Insert(m, k, v) == [x \in (DOMAIN m) \cup {k} |-> IF x = k THEN v ELSE m[x]]

unwrap_or(field, default) == IF field = Absent THEN default ELSE field

\* Mutant: a line without alleles leaves the template's alleles as they are.
ZipLineStepKeepAlleles(v, vs, line) ==
    LET v1 == [v EXCEPT !.chromosome = chromosome_to_number(line.chrom),
                        !.position = from_str_radix(line.pos).val,
                        !.strand = line.strand[1],
                        !.alleles = IF line.alleles = Absent THEN v.alleles
                                    ELSE <<line.alleles[1], line.alleles[2]>>]
    IN  [var |-> v1, variants |-> Insert(vs, line.name, v1)]

\* One pass of the line loop: every field of the template is assigned from
\* the line, then a clone of the template is inserted under the identifier.
ZipLineStep(v, vs, line) ==
    LET position == IF from_str_radix(line.pos).ok THEN from_str_radix(line.pos).val ELSE 0
        alleles == unwrap_or(line.alleles, <<"X", "X">>)
        v1 == [v EXCEPT !.chromosome = chromosome_to_number(line.chrom),
                        !.position = position,
                        !.strand = line.strand[1],
                        !.alleles = <<alleles[1], alleles[2]>>]
    IN  [var |-> v1, variants |-> Insert(vs, line.name, v1)]

RECURSIVE ZipLines(_, _, _)
ZipLines(v, vs, lines) ==
    IF lines = <<>> THEN vs
    ELSE LET s == ZipLineStep(v, vs, Head(lines))
         IN  ZipLines(s.var, s.variants, Tail(lines))

FileNames == {"readme.txt", "a.strand", "b.strand"}

\* name.ends_with(".strand"), over the file names of the model
ends_with_strand(name) == name \in {"a.strand", "b.strand"}

\* The whole function on an archive given as its entries [name, lines]: the
\* first entry whose name ends in .strand is read, and the loop breaks.
read_variants_from_zip(archive) ==
    LET hits == {i \in 1..Len(archive) : ends_with_strand(archive[i].name)}
    IN  IF hits = {} THEN [name |-> "", variants |-> EmptyMap]
        ELSE LET i == CHOOSE j \in hits : \A k \in hits : j <= k
             IN  [name |-> archive[i].name,
                  variants |-> ZipLines(VarTemplate, EmptyMap, archive[i].lines)]

----------------------------------------------------------------------------
(* match_bim *)

\* n as f32 / d as f32, kept exact; den = 0 is the non-finite result.
Div(n, d) == [num |-> n, den |-> d]

is_finite(score) == score.den # 0

\* Mutant: the score is returned as it is.
mzinf_identity(score) == score

mzinf(score) == IF is_finite(score) THEN score ELSE [num |-> 0, den |-> 1]

\* The counters of match_bim; mismatches is a ghost counter of the
\* AlleleMatch::Mismatch arm, which the code leaves empty.
NewCounters ==
    [name_matches |-> 0, name_pos_matches |-> 0, strand_matches |-> 0,
     plus_matches |-> 0, atcg_matches |-> 0, mismatches |-> 0]

\* Mutant: the chromosome is not compared.
BimStepPositionOnly(c, bimentry, vs) ==
    IF bimentry.name \in DOMAIN vs
    THEN LET strand == vs[bimentry.name]
             c1 == [c EXCEPT !.name_matches = @ + 1]
         IN  IF strand.position = bimentry.position
             THEN LET c2 == [c1 EXCEPT !.name_pos_matches = @ + 1]
                      m == match_alleles(bimentry.alleles, strand.alleles, strand.strand)
                  IN  CASE m = "ATCG" -> [c2 EXCEPT !.atcg_matches = @ + 1]
                        [] m = "Original" -> [c2 EXCEPT !.strand_matches = @ + 1]
                        [] m = "Plus" -> [c2 EXCEPT !.plus_matches = @ + 1]
                        [] m = "Mismatch" -> [c2 EXCEPT !.mismatches = @ + 1]
             ELSE c1
    ELSE c

\* Mutant: an ATCG site is classified before the position is confirmed, so
\* it is not counted in name_pos_matches.
BimStepAtcgUnconfirmed(c, bimentry, vs) ==
    IF bimentry.name \in DOMAIN vs
    THEN LET strand == vs[bimentry.name]
             c1 == [c EXCEPT !.name_matches = @ + 1]
             m == match_alleles(bimentry.alleles, strand.alleles, strand.strand)
         IN  IF m = "ATCG" THEN [c1 EXCEPT !.atcg_matches = @ + 1]
             ELSE IF strand.position = bimentry.position
                     /\ strand.chromosome = bimentry.chromosome
             THEN LET c2 == [c1 EXCEPT !.name_pos_matches = @ + 1]
                  IN  CASE m = "Original" -> [c2 EXCEPT !.strand_matches = @ + 1]
                        [] m = "Plus" -> [c2 EXCEPT !.plus_matches = @ + 1]
                        [] m = "Mismatch" -> [c2 EXCEPT !.mismatches = @ + 1]
             ELSE c1
    ELSE c

\* One pass of `for bimentry in bim`.
BimStep(c, bimentry, vs) ==
    IF bimentry.name \in DOMAIN vs
    THEN LET strand == vs[bimentry.name]
             c1 == [c EXCEPT !.name_matches = @ + 1]
         IN  IF strand.position = bimentry.position
                /\ strand.chromosome = bimentry.chromosome
             THEN LET c2 == [c1 EXCEPT !.name_pos_matches = @ + 1]
                      m == match_alleles(bimentry.alleles, strand.alleles, strand.strand)
                  IN  CASE m = "ATCG" -> [c2 EXCEPT !.atcg_matches = @ + 1]
                        [] m = "Original" -> [c2 EXCEPT !.strand_matches = @ + 1]
                        [] m = "Plus" -> [c2 EXCEPT !.plus_matches = @ + 1]
                        [] m = "Mismatch" -> [c2 EXCEPT !.mismatches = @ + 1]
             ELSE c1
    ELSE c

RECURSIVE BimCount(_, _, _)
BimCount(c, bimlist, vs) ==
    IF bimlist = <<>> THEN c
    ELSE BimCount(BimStep(c, Head(bimlist), vs), Tail(bimlist), vs)

\* The ratios computed after the loop, each passed through mzinf.  origin is
\* a ghost field (the archive that was scored), read by no operation.
BimRatios(name, c, len, origin) ==
    [name |-> name,
     name_match_rate |-> mzinf(Div(c.name_matches, len)),
     name_pos_match_rate |-> mzinf(Div(c.name_pos_matches, c.name_matches)),
     strand_match_rate |->
         mzinf(Div(c.strand_matches, c.name_pos_matches - c.atcg_matches)),
     plus_match_rate |->
         mzinf(Div(c.plus_matches, c.name_pos_matches - c.atcg_matches)),
     atcg_match_rate |-> mzinf(Div(c.atcg_matches, c.name_pos_matches)),
     origin |-> origin]

match_bim(bimlist, name, vs, origin) ==
    BimRatios(name, BimCount(NewCounters, bimlist, vs), Len(bimlist), origin)

----------------------------------------------------------------------------
(* The order on MatchResult *)

RECURSIVE GCD(_, _)
GCD(a, b) == IF b = 0 THEN a ELSE GCD(b, a % b)

LCM(a, b) == (a * b) \div GCD(a, b)

RankedRates(r) ==
    <<r.name_match_rate, r.name_pos_match_rate, r.strand_match_rate, r.plus_match_rate>>

\* finite | inf | nan: the f32 class of the weighted sum of the four rates
\* (no rate is negative, so an infinite rate is +inf and the sum is +inf
\* unless a term is NaN).
ScoreClass(r) ==
    LET q == RankedRates(r)
    IN  IF \E k \in 1..4 : q[k].den = 0 /\ q[k].num = 0 THEN "nan"
        ELSE IF \E k \in 1..4 : q[k].den = 0 THEN "inf"
        ELSE "finite"

\* Mutant: atcg_match_rate is added to the score.
ScoreWithAtcg(r) ==
    LET q == RankedRates(r)
        d == LCM(LCM(LCM(q[1].den, q[2].den), LCM(q[3].den, q[4].den)),
                 r.atcg_match_rate.den)
    IN  [num |-> 4000 * q[1].num * (d \div q[1].den)
                 + 3000 * q[2].num * (d \div q[2].den)
                 + 2000 * q[3].num * (d \div q[3].den)
                 + q[4].num * (d \div q[4].den)
                 + r.atcg_match_rate.num * (d \div r.atcg_match_rate.den),
         den |-> d]

\* name_match_rate * 4000 + name_pos_match_rate * 3000
\*   + strand_match_rate * 2000 + plus_match_rate, for finite rates, as one
\* fraction over the least common denominator.
Score(r) ==
    LET q == RankedRates(r)
        d == LCM(LCM(q[1].den, q[2].den), LCM(q[3].den, q[4].den))
    IN  [num |-> 4000 * q[1].num * (d \div q[1].den)
                 + 3000 * q[2].num * (d \div q[2].den)
                 + 2000 * q[3].num * (d \div q[3].den)
                 + q[4].num * (d \div q[4].den),
         den |-> d]

\* The rates of the model are fractions with denominators up to 12, so two
\* different exact scores are at least 1/12 apart, far more than the rounding
\* of the f32 sum (below 0.01 for a score under 9001): the f32 comparison
\* gives the result of the exact one.
\*
\* partial_cmp followed by cmp's unwrap.  Two finite scores that are neither
\* < nor > are equal, so their difference 0 is below F32_EPSILON; a NaN, or
\* +inf against +inf, reaches the panic.
cmp(self, other) ==
    LET cs == ScoreClass(self)
        co == ScoreClass(other)
    IN  IF cs = "finite" /\ co = "finite"
        THEN LET my_score == Score(self)
                 other_score == Score(other)
             IN  IF my_score.num * other_score.den < other_score.num * my_score.den
                 THEN "Less"
                 ELSE IF my_score.num * other_score.den > other_score.num * my_score.den
                 THEN "Greater"
                 ELSE "Equal"
        ELSE IF cs = "finite" /\ co = "inf" THEN "Less"
        ELSE IF cs = "inf" /\ co = "finite" THEN "Greater"
        ELSE "Panic"

----------------------------------------------------------------------------
(* Values of the variables a specification does not use *)

NoResult == [name |-> "none"]

IdleAlleles ==
    /\ al_left = <<"X", "X">>
    /\ al_right = <<"X", "X">>
    /\ al_strand = "*"
    /\ al_result = "idle"

IdleBim ==
    /\ bim = <<>>
    /\ variants = EmptyMap
    /\ bim_idx = 0
    /\ cnt = NewCounters
    /\ bim_res = NoResult

IdleZip ==
    /\ zip_entries = <<>>
    /\ zip_i = 1
    /\ zip_read = <<>>
    /\ var = VarTemplate
    /\ zvariants = EmptyMap
    /\ strand_file_name = ""
    /\ zip_pc = "idle"

IdleMain ==
    /\ ziplist = <<>>
    /\ scan_i = 1
    /\ results = EmptyBag
    /\ strandmap = EmptyMap
    /\ extract_strands = 0
    /\ emitted = <<>>
    /\ extracted = <<>>
    /\ pc = "idle"

----------------------------------------------------------------------------
(* SpecAlleles: match_alleles applied to one input *)

InitAlleles ==
    /\ al_left \in AllelePairs
    /\ al_right \in AllelePairs
    /\ al_strand \in StrandMarkers
    /\ al_result = "none"
    /\ IdleBim /\ IdleZip /\ IdleMain

Classify ==
    /\ al_result = "none"
    /\ al_result' = match_alleles(al_left, al_right, al_strand)
    /\ UNCHANGED <<al_left, al_right, al_strand, vars_bim, vars_zip, vars_main>>

NextAlleles == Classify

SpecAlleles == InitAlleles /\ [][NextAlleles]_vars

----------------------------------------------------------------------------
(* SpecBim: match_bim on one reference list and one candidate mapping *)

RefAlleles == {<<"A", "G">>, <<"A", "T">>}

SourceEntries ==
    [name : Names, chromosome : {23}, position : {100}, alleles : RefAlleles]

RECURSIVE SeqsUpTo(_, _)
SeqsUpTo(S, n) ==
    IF n = 0 THEN {<<>>}
    ELSE LET shorter == SeqsUpTo(S, n - 1)
         IN  shorter \cup {Append(q, x) : q \in {t \in shorter : Len(t) = n - 1}, x \in S}

Loci == {<<23, 100>>, <<23, 0>>, <<0, 100>>}
CandAlleles == {<<"A", "G">>, <<"T", "C">>, <<"A", "T">>, <<"X", "X">>}

VariantEntries ==
    {[chromosome |-> l[1], position |-> l[2], alleles |-> a, strand |-> s] :
        l \in Loci, a \in CandAlleles, s \in {"+", "-"}}

VariantMaps == UNION {[D -> VariantEntries] : D \in SUBSET Names}

InitBim ==
    /\ bim \in SeqsUpTo(SourceEntries, MaxBim)
    /\ variants \in VariantMaps
    /\ bim_idx = 0
    /\ cnt = NewCounters
    /\ bim_res = NoResult
    /\ IdleAlleles /\ IdleZip /\ IdleMain

BimLoop ==
    /\ bim_res = NoResult
    /\ bim_idx < Len(bim)
    /\ cnt' = BimStep(cnt, bim[bim_idx + 1], variants)
    /\ bim_idx' = bim_idx + 1
    /\ UNCHANGED <<bim, variants, bim_res, vars_alleles, vars_zip, vars_main>>

BimReturn ==
    /\ bim_res = NoResult
    /\ bim_idx = Len(bim)
    /\ bim_res' = BimRatios("a.strand", cnt, Len(bim), 0)
    /\ UNCHANGED <<bim, variants, bim_idx, cnt, vars_alleles, vars_zip, vars_main>>

NextBim == BimLoop \/ BimReturn

SpecBim == InitBim /\ [][NextBim]_vars

----------------------------------------------------------------------------
(* SpecZip: read_variants_from_zip on one archive, entry by entry and line  *)
(* by line; the lines of the strand file are drawn as they are read.        *)

ZipShapes ==
    {<<"readme.txt">>, <<"a.strand">>, <<"readme.txt", "b.strand">>,
     <<"a.strand", "b.strand">>}

InitZip ==
    /\ zip_entries \in ZipShapes
    /\ zip_i = 1
    /\ zip_read = <<>>
    /\ var = VarTemplate
    /\ zvariants = EmptyMap
    /\ strand_file_name = ""
    /\ zip_pc = "entries"
    /\ IdleAlleles /\ IdleBim /\ IdleMain

ZipSkipEntry ==
    /\ zip_pc = "entries"
    /\ zip_i <= Len(zip_entries)
    /\ ~ends_with_strand(zip_entries[zip_i])
    /\ zip_i' = zip_i + 1
    /\ UNCHANGED <<zip_entries, zip_read, var, zvariants, strand_file_name, zip_pc,
                   vars_alleles, vars_bim, vars_main>>

ZipOpenStrand ==
    /\ zip_pc = "entries"
    /\ zip_i <= Len(zip_entries)
    /\ ends_with_strand(zip_entries[zip_i])
    /\ strand_file_name' = zip_entries[zip_i]
    /\ zip_pc' = "lines"
    /\ UNCHANGED <<zip_entries, zip_i, zip_read, var, zvariants,
                   vars_alleles, vars_bim, vars_main>>

ZipLine ==
    /\ zip_pc = "lines"
    /\ Len(zip_read) < MaxLines
    /\ \E line \in Lines :
          LET s == ZipLineStep(var, zvariants, line)
          IN  /\ var' = s.var
              /\ zvariants' = s.variants
              /\ zip_read' = Append(zip_read, line)
    /\ UNCHANGED <<zip_entries, zip_i, strand_file_name, zip_pc,
                   vars_alleles, vars_bim, vars_main>>

\* End of the strand file: `break`, then Ok((strand_file_name, variants)).
ZipBreak ==
    /\ zip_pc = "lines"
    /\ zip_pc' = "returned"
    /\ UNCHANGED <<zip_entries, zip_i, zip_read, var, zvariants, strand_file_name,
                   vars_alleles, vars_bim, vars_main>>

\* No entry ends in .strand: the entry loop runs out.
ZipNoStrand ==
    /\ zip_pc = "entries"
    /\ zip_i > Len(zip_entries)
    /\ zip_pc' = "returned"
    /\ UNCHANGED <<zip_entries, zip_i, zip_read, var, zvariants, strand_file_name,
                   vars_alleles, vars_bim, vars_main>>

NextZip == ZipSkipEntry \/ ZipOpenStrand \/ ZipLine \/ ZipBreak \/ ZipNoStrand

SpecZip == InitZip /\ [][NextZip]_vars

----------------------------------------------------------------------------
(* The result collection: a BinaryHeap<MatchResult>, kept as the bag of its *)
(* elements.  pop returns a greatest element; which one among equal ones is *)
(* left open.                                                               *)

\* BinaryHeap::push compares the new element on its way up; a comparison
\* that panics ends the program.
PushPanics(heap, r) == \E s \in BagToSet(heap) : cmp(r, s) = "Panic"

Push(heap, r) == heap (+) SetToBag({r})

\* Mutant: pop returns a least element.
PopCandidatesLeast(heap) ==
    {r \in BagToSet(heap) : \A s \in BagToSet(heap) : cmp(r, s) \in {"Less", "Equal"}}

PopCandidates(heap) ==
    {r \in BagToSet(heap) : \A s \in BagToSet(heap) : cmp(r, s) \in {"Greater", "Equal"}}

\* Mutant: an archive without a strand file is not entered.
StrandmapInsertNamed(m, name, z) == IF name = "" THEN m ELSE Insert(m, name, z)

\* strandmap.insert(name.to_string(), z)
StrandmapInsert(m, name, z) == Insert(m, name, z)

\* One pass of `while let Some(res) = results.pop()`: the extraction while
\* extract_strands > 0 (strandmap[&res.name] panics on a missing key), then
\* the row.  extracted lists the archives handed to extract_strand.
Emit ==
    /\ pc = "emit"
    /\ \E res \in PopCandidates(results) :
          /\ results' = results (-) SetToBag({res})
          /\ IF extract_strands > 0
             THEN IF res.name \in DOMAIN strandmap
                  THEN /\ extracted' = Append(extracted, strandmap[res.name])
                       /\ extract_strands' = extract_strands - 1
                       /\ emitted' = Append(emitted, res)
                       /\ pc' = pc
                  ELSE /\ pc' = "panic"
                       /\ UNCHANGED <<extracted, extract_strands, emitted>>
             ELSE /\ emitted' = Append(emitted, res)
                  /\ UNCHANGED <<extracted, extract_strands, pc>>
    /\ UNCHANGED <<ziplist, scan_i, strandmap, vars_alleles, vars_bim, vars_zip>>

\* results.pop() returns None: Ok(()).
EmitEnd ==
    /\ pc = "emit"
    /\ results = EmptyBag
    /\ pc' = "done"
    /\ UNCHANGED <<ziplist, scan_i, results, strandmap, extract_strands, emitted,
                   extracted, vars_alleles, vars_bim, vars_zip>>

----------------------------------------------------------------------------
(* Spec: main *)

e1 == [name |-> "rs1", chromosome |-> 23, position |-> 100, alleles |-> <<"A", "G">>]
e2 == [name |-> "rs2", chromosome |-> 23, position |-> 100, alleles |-> <<"A", "T">>]

\* The reference lists of the runs (read_bim's result).
MainBims == {<<>>, <<e1>>, <<e1, e2>>}

L1 == [name |-> "rs1", chrom |-> <<"X">>, pos |-> <<"1", "0", "0">>,
       strand |-> <<"+">>, alleles |-> <<"A", "G">>]
L2 == [name |-> "rs1", chrom |-> <<"X">>, pos |-> <<"n", "a">>,
       strand |-> <<"+">>, alleles |-> <<"A", "G">>]
L3 == [name |-> "rs2", chrom |-> <<"X">>, pos |-> <<"1", "0", "0">>,
       strand |-> <<"-">>, alleles |-> Absent]

\* The archives of the runs, each the sequence of its entries.
Archives ==
    {<<[name |-> "readme.txt", lines |-> <<>>]>>,
     <<[name |-> "a.strand", lines |-> <<>>]>>,
     <<[name |-> "a.strand", lines |-> <<L1>>]>>,
     <<[name |-> "a.strand", lines |-> <<L2>>]>>,
     <<[name |-> "a.strand", lines |-> <<L1, L3>>]>>,
     <<[name |-> "readme.txt", lines |-> <<>>], [name |-> "b.strand", lines |-> <<L1>>]>>,
     <<[name |-> "b.strand", lines |-> <<L3>>], [name |-> "a.strand", lines |-> <<L1>>]>>}

\* An archive's path is its place in the directory listing: get_zip_list
\* gives every archive a path of its own.
InitMain ==
    /\ bim \in MainBims
    /\ ziplist \in SeqsUpTo(Archives, MaxZips)
    /\ scan_i = 1
    /\ results = EmptyBag
    /\ strandmap = EmptyMap
    /\ extract_strands = 0
    /\ emitted = <<>>
    /\ extracted = <<>>
    /\ pc = "scan"
    /\ variants = EmptyMap /\ bim_idx = 0 /\ cnt = NewCounters /\ bim_res = NoResult
    /\ IdleAlleles /\ IdleZip

\* One pass of `for z in ziplist`.
Scan ==
    /\ pc = "scan"
    /\ scan_i <= Len(ziplist)
    /\ LET z == scan_i
           rv == read_variants_from_zip(ziplist[z])
           res == match_bim(bim, rv.name, rv.variants, z)
       IN  /\ strandmap' = StrandmapInsert(strandmap, rv.name, z)
           /\ IF PushPanics(results, res)
              THEN pc' = "panic" /\ results' = results
              ELSE pc' = pc /\ results' = Push(results, res)
    /\ scan_i' = scan_i + 1
    /\ UNCHANGED <<ziplist, extract_strands, emitted, extracted,
                   vars_alleles, vars_bim, vars_zip>>

\* The loop is over: the extract argument is parsed (0 when not given).
ScanEnd ==
    /\ pc = "scan"
    /\ scan_i > Len(ziplist)
    /\ \E n \in 0..MaxExtract : extract_strands' = n
    /\ pc' = "emit"
    /\ UNCHANGED <<ziplist, scan_i, results, strandmap, emitted, extracted,
                   vars_alleles, vars_bim, vars_zip>>

Next == Scan \/ ScanEnd \/ Emit \/ EmitEnd

Spec == InitMain /\ [][Next]_vars

----------------------------------------------------------------------------
(* SpecRank: the result collection on its own, filled with MatchResults     *)
(* whose rates are tenths, then emptied by the emit loop (no extraction).   *)

Tenth(k) == [num |-> k, den |-> 10]

\* Rates that match_bim can return: a rate is 0 when its denominator is 0,
\* and strand_match_rate + plus_match_rate <= 1.
RankRecord(n, p, s, q, a) ==
    [name |-> "a.strand", name_match_rate |-> Tenth(n), name_pos_match_rate |-> Tenth(p),
     strand_match_rate |-> Tenth(s), plus_match_rate |-> Tenth(q),
     atcg_match_rate |-> Tenth(a), origin |-> 0]

RankRecords ==
    {RankRecord(0, 0, 0, 0, 0)}
    \cup {RankRecord(n, 0, 0, 0, 0) : n \in {5, 9}}
    \cup {RankRecord(n, p, sq[1], sq[2], 0) :
            n \in {5, 9}, p \in {3, 8}, sq \in {<<0, 0>>, <<10, 0>>, <<0, 10>>}}
    \cup {RankRecord(n, p, 0, 0, 5) : n \in {5, 9}, p \in {3, 8}}

InitRank ==
    /\ results = EmptyBag
    /\ ziplist = <<>>
    /\ scan_i = 1
    /\ strandmap = EmptyMap
    /\ extract_strands = 0
    /\ emitted = <<>>
    /\ extracted = <<>>
    /\ pc = "scan"
    /\ IdleAlleles /\ IdleBim /\ IdleZip

RankPush ==
    /\ pc = "scan"
    /\ scan_i <= MaxRecs
    /\ \E r \in RankRecords :
          IF PushPanics(results, r)
          THEN pc' = "panic" /\ results' = results
          ELSE pc' = pc /\ results' = Push(results, r)
    /\ scan_i' = scan_i + 1
    /\ UNCHANGED <<ziplist, strandmap, extract_strands, emitted, extracted,
                   vars_alleles, vars_bim, vars_zip>>

RankScanEnd ==
    /\ pc = "scan"
    /\ pc' = "emit"
    /\ UNCHANGED <<ziplist, scan_i, results, strandmap, extract_strands, emitted,
                   extracted, vars_alleles, vars_bim, vars_zip>>

NextRank == RankPush \/ RankScanEnd \/ Emit \/ EmitEnd

SpecRank == InitRank /\ [][NextRank]_vars

----------------------------------------------------------------------------
(* Properties of the classifier (SpecAlleles) *)

ClaimComplement(c) ==
    CASE c = "A" -> "T" [] c = "T" -> "A" [] c = "C" -> "G" [] c = "G" -> "C"
      [] OTHER -> "X"

\* Every element of p occurs in q.
Contained(p, q) == {p[1], p[2]} \subseteq {q[1], q[2]}

ComplementOf(p) == <<ClaimComplement(p[1]), ClaimComplement(p[2])>>

SelfComplementary(p) == Contained(p, ComplementOf(p))

\* C5: when the reference pair and the candidate pair are both
\* self-complementary, match_alleles returns ATCG for every strand marker,
\* also when the reference pair matches the candidate pair.
C5_SelfComplementaryIsATCG ==
    (al_result \notin {"none", "idle"}
        /\ SelfComplementary(al_left) /\ SelfComplementary(al_right))
    => al_result = "ATCG"

C5_Witness ==
    /\ al_left = <<"A", "T">>
    /\ al_right = <<"A", "T">>
    /\ al_strand = "+"
    /\ al_result = "ATCG"

\* C6: for pairs that are not both self-complementary, where the reference
\* pair does not match the candidate pair but matches its complement, the
\* result is Plus for the strand marker "-" and Mismatch for every other
\* marker; Plus is returned for no other marker; (A,G) against (A,G) with
\* "+" is Original.
C6_PlusOnlyOnMinusStrand ==
    al_result \notin {"none", "idle"} =>
        /\ (/\ ~(SelfComplementary(al_left) /\ SelfComplementary(al_right))
            /\ ~Contained(al_left, al_right)
            /\ Contained(al_left, ComplementOf(al_right)))
           => al_result = (IF al_strand = "-" THEN "Plus" ELSE "Mismatch")
        /\ al_result = "Plus" => al_strand = "-"
        /\ (al_left = <<"A", "G">> /\ al_right = <<"A", "G">> /\ al_strand = "+")
           => al_result = "Original"

C6_Witness ==
    /\ al_left = <<"A", "G">>
    /\ al_right = <<"T", "C">>
    /\ al_strand = "-"
    /\ al_result = "Plus"

----------------------------------------------------------------------------
(* Properties of match_bim (SpecBim) *)

InUnitInterval(r) == r.den > 0 /\ 0 <= r.num /\ r.num <= r.den

IsZeroRate(r) == r.den # 0 /\ r.num = 0

FiveRates(r) ==
    {r.name_match_rate, r.name_pos_match_rate, r.strand_match_rate,
     r.plus_match_rate, r.atcg_match_rate}

\* C3: every ratio of the returned record is finite and in [0,1]; every
\* numerator count is non-negative and at most its denominator count, and
\* name_pos_matches - atcg_matches is never negative.
C3_RatiosInUnitInterval ==
    /\ \A f \in DOMAIN cnt : cnt[f] >= 0
    /\ cnt.name_matches <= Len(bim)
    /\ cnt.name_pos_matches <= cnt.name_matches
    /\ cnt.name_pos_matches - cnt.atcg_matches >= 0
    /\ cnt.strand_matches <= cnt.name_pos_matches - cnt.atcg_matches
    /\ cnt.plus_matches <= cnt.name_pos_matches - cnt.atcg_matches
    /\ cnt.atcg_matches <= cnt.name_pos_matches
    /\ bim_res # NoResult => \A q \in FiveRates(bim_res) : InUnitInterval(q)

\* A reference list that repeats an identifier, half of whose confirmed
\* entries are ATCG.
C3_Witness ==
    /\ bim_res # NoResult
    /\ Len(bim) = 2
    /\ bim[1].name = bim[2].name
    /\ bim_res.atcg_match_rate = [num |-> 1, den |-> 2]
    /\ bim_res.strand_match_rate = [num |-> 0, den |-> 1]

Found(k) == bim[k].name \in DOMAIN variants

Confirmed(k) ==
    /\ Found(k)
    /\ variants[bim[k].name].chromosome = bim[k].chromosome
    /\ variants[bim[k].name].position = bim[k].position

\* C7: after any prefix of the reference list, the four classes add up to
\* name_pos_matches, which counts exactly the entries of the prefix found
\* with equal chromosome and position, and
\* name_pos_matches <= name_matches <= entries processed <= |reference list|.
C7_CountersPartition ==
    /\ cnt.strand_matches + cnt.plus_matches + cnt.atcg_matches + cnt.mismatches
       = cnt.name_pos_matches
    /\ cnt.name_pos_matches = Cardinality({k \in 1..bim_idx : Confirmed(k)})
    /\ cnt.name_pos_matches <= cnt.name_matches
    /\ cnt.name_matches <= bim_idx
    /\ bim_idx <= Len(bim)

\* Three entries processed: one not confirmed, one Original, one Mismatch.
C7_Witness ==
    /\ bim_idx = 3
    /\ cnt.name_matches = 3
    /\ cnt.name_pos_matches = 2
    /\ cnt.strand_matches = 1
    /\ cnt.mismatches = 1

----------------------------------------------------------------------------
(* Properties of read_variants_from_zip (SpecZip) *)

\* The record of one line, built from that line alone.
FreshEntry(line) ==
    [chromosome |-> chromosome_to_number(line.chrom),
     position |-> IF from_str_radix(line.pos).ok THEN from_str_radix(line.pos).val ELSE 0,
     alleles |-> IF line.alleles = Absent THEN <<"X", "X">>
                 ELSE <<line.alleles[1], line.alleles[2]>>,
     strand |-> line.strand[1]]

LastLineOf(n) ==
    LET ks == {k \in 1..Len(zip_read) : zip_read[k].name = n}
    IN  zip_read[CHOOSE k \in ks : \A j \in ks : j <= k]

\* C9: the mapping has exactly the identifiers of the lines read, and the
\* entry of an identifier is the record of the last line carrying it, built
\* from that line alone.
C9_LastLineWins ==
    /\ DOMAIN zvariants = {zip_read[k].name : k \in 1..Len(zip_read)}
    /\ \A n \in DOMAIN zvariants : zvariants[n] = FreshEntry(LastLineOf(n))

\* Two lines with one identifier: the first with alleles, a parsed position
\* and a numeric chromosome, the second with none of them.
C9_Witness ==
    /\ zip_pc = "returned"
    /\ Len(zip_read) = 2
    /\ zip_read[1].name = zip_read[2].name
    /\ zip_read[1].alleles = <<"A", "G">> /\ zip_read[2].alleles = Absent
    /\ zip_read[1].pos = <<"1", "0", "0">> /\ zip_read[2].pos = <<"n", "a">>
    /\ zip_read[1].chrom = <<"7">> /\ zip_read[2].chrom = <<"U", "n">>
    /\ zvariants[zip_read[2].name] =
          [chromosome |-> 0, position |-> 0, alleles |-> <<"X", "X">>,
           strand |-> zip_read[2].strand[1]]

----------------------------------------------------------------------------
(* Properties of main (Spec) *)

EmittedSet == {emitted[k] : k \in 1..Len(emitted)}

ScoredRecords == BagToSet(results) \cup EmittedSet

\* C4: a ratio whose denominator is zero is emitted as 0.0 and nothing
\* panics; a candidate with an empty mapping (also an archive without a
\* strand file, returned as the empty name and an empty mapping) has all
\* five ratios 0.0, and the scan goes on to the next candidate.
C4_ZeroDenominatorGivesZero ==
    /\ pc # "panic"
    /\ pc = "scan" => \A z \in 1..(scan_i - 1) : \E r \in BagToSet(results) : r.origin = z
    /\ \A r \in ScoredRecords :
          LET rv == read_variants_from_zip(ziplist[r.origin])
              c == BimCount(NewCounters, bim, rv.variants)
          IN  /\ Len(bim) = 0 => IsZeroRate(r.name_match_rate)
              /\ c.name_matches = 0 => IsZeroRate(r.name_pos_match_rate)
              /\ c.name_pos_matches - c.atcg_matches = 0 =>
                    IsZeroRate(r.strand_match_rate) /\ IsZeroRate(r.plus_match_rate)
              /\ c.name_pos_matches = 0 => IsZeroRate(r.atcg_match_rate)
              /\ DOMAIN rv.variants = {} => \A q \in FiveRates(r) : IsZeroRate(q)

\* A run whose first archive has no strand file and whose second one matches.
C4_Witness ==
    /\ pc = "done"
    /\ Len(ziplist) = 2
    /\ ziplist[1] = <<[name |-> "readme.txt", lines |-> <<>>]>>
    /\ \E r \in EmittedSet :
          r.origin = 1 /\ r.name = "" /\ \A q \in FiveRates(r) : IsZeroRate(q)
    /\ \E r \in EmittedSet : r.origin = 2 /\ r.name_match_rate.num > 0

\* C8: strandmap has an entry for the name of every record in the result
\* collection, the empty name included, and no lookup strandmap[record.name]
\* fails.
C8_StrandmapCoversResults ==
    /\ \A r \in BagToSet(results) : r.name \in DOMAIN strandmap
    /\ pc # "panic"

\* An extraction was made for a record with the empty name.
C8_Witness ==
    /\ pc = "done"
    /\ \E k \in 1..Len(extracted) : emitted[k].name = ""

Min(a, b) == IF a <= b THEN a ELSE b

\* C10: the first min(N, candidates) emitted records trigger an extraction,
\* and each extraction reads the archive the emitted record was scored from
\* (told by its entries: two archives with the same entries are not told
\* apart).
C10_ExtractsScoredArchive ==
    pc \in {"emit", "done"} =>
        /\ Len(extracted) = Min(extract_strands + Len(extracted), Len(emitted))
        /\ \A k \in 1..Len(extracted) : ziplist[extracted[k]] = ziplist[emitted[k].origin]

\* The part of C10 that the code keeps: the number of extractions.
ExtractionCount ==
    pc \in {"emit", "done"} =>
        Len(extracted) = Min(extract_strands + Len(extracted), Len(emitted))

\* Every scanned archive is emitted exactly once, in priority order.
MainEmitsEveryCandidate ==
    /\ pc = "done" =>
          /\ Len(emitted) = Len(ziplist)
          /\ \A z \in 1..Len(ziplist) : \E k \in 1..Len(emitted) : emitted[k].origin = z
    /\ \A k \in 1..(Len(emitted) - 1) : cmp(emitted[k], emitted[k + 1]) \in {"Greater", "Equal"}

----------------------------------------------------------------------------
(* Properties of the order (SpecRank) *)

RateEq(x, y) == x.num * y.den = y.num * x.den
RateLess(x, y) == x.num * y.den < y.num * x.den

RECURSIVE LexFrom(_, _, _)
LexFrom(p, q, k) ==
    IF k > Len(p) THEN "Equal"
    ELSE IF RateLess(p[k], q[k]) THEN "Less"
    ELSE IF RateLess(q[k], p[k]) THEN "Greater"
    ELSE LexFrom(p, q, k + 1)

\* The lexicographic comparison of the tuples
\* (name_match_rate, name_pos_match_rate, strand_match_rate, plus_match_rate).
LexCmp(a, b) == LexFrom(RankedRates(a), RankedRates(b), 1)

\* Every pushed record is emitted once.
EmitsEveryCandidate == pc = "done" => Len(emitted) = scan_i - 1

\* The rows are in non-increasing order of priority.
EmittedByPriority ==
    \A k \in 1..(Len(emitted) - 1) : cmp(emitted[k], emitted[k + 1]) \in {"Greater", "Equal"}

\* emitted holds, in places a, b, c, records with name_match_rate 0.9, 0.5,
\* 0.5 and, for the last two, name_pos_match_rate 0.8 and 0.3.
ExampleRecordsAt(a, b, c) ==
    /\ {a, b, c} = 1..3
    /\ RateEq(emitted[a].name_match_rate, Tenth(9))
    /\ RateEq(emitted[b].name_match_rate, Tenth(5))
    /\ RateEq(emitted[b].name_pos_match_rate, Tenth(8))
    /\ RateEq(emitted[c].name_match_rate, Tenth(5))
    /\ RateEq(emitted[c].name_pos_match_rate, Tenth(3))

ExampleOrder ==
    /\ RateEq(emitted[1].name_match_rate, Tenth(9))
    /\ RateEq(emitted[2].name_pos_match_rate, Tenth(8))
    /\ RateEq(emitted[3].name_pos_match_rate, Tenth(3))

\* The example as the claim states it, for any values of the other rates.
EmittedAsInExample ==
    (pc = "done" /\ Len(emitted) = 3 /\ \E a, b, c \in 1..3 : ExampleRecordsAt(a, b, c))
    => ExampleOrder

\* The example for records that agree in strand_match_rate and
\* plus_match_rate and whose 0.9-record has name_pos_match_rate >= 0.3.
EmittedAsInExampleOthersEqual ==
    (/\ pc = "done"
     /\ Len(emitted) = 3
     /\ \E a, b, c \in 1..3 :
           /\ ExampleRecordsAt(a, b, c)
           /\ ~RateLess(emitted[a].name_pos_match_rate, Tenth(3))
           /\ \A i, j \in 1..3 :
                 /\ RateEq(emitted[i].strand_match_rate, emitted[j].strand_match_rate)
                 /\ RateEq(emitted[i].plus_match_rate, emitted[j].plus_match_rate))
    => ExampleOrder

\* C1 as stated: k pushed records give k rows, in non-increasing order of
\* priority; records with name_match_rate 0.9, 0.5, 0.5 and
\* name_pos_match_rate 0.8 and 0.3 for the last two come out as
\* [0.9, 0.8, 0.3] whatever the push order.
C1_RowsByPriorityAsStated ==
    EmitsEveryCandidate /\ EmittedByPriority /\ EmittedAsInExample

\* C1 (amended): k pushed records give k rows, in non-increasing order of
\* priority; the example order holds when the three records agree in
\* strand_match_rate and plus_match_rate and the 0.9-record's
\* name_pos_match_rate is at least 0.3.
C1_RowsByPriority ==
    EmitsEveryCandidate /\ EmittedByPriority /\ EmittedAsInExampleOthersEqual

\* The three records of the example, emitted after three pushes.
C1_Witness ==
    /\ pc = "done"
    /\ scan_i = 4
    /\ emitted = <<RankRecord(9, 3, 10, 0, 0), RankRecord(5, 8, 10, 0, 0),
                   RankRecord(5, 3, 10, 0, 0)>>

\* C2 as stated: the comparison by weighted priority orders any two records
\* as the lexicographic comparison of their four ranked rates does.
C2_PriorityIsLexicographic ==
    \A a, b \in BagToSet(results) : cmp(a, b) = LexCmp(a, b)

\* a is at least b in each ranked rate and above it in one.
Dominates(a, b) ==
    /\ \A k \in 1..4 : ~RateLess(RankedRates(a)[k], RankedRates(b)[k])
    /\ \E k \in 1..4 : RateLess(RankedRates(b)[k], RankedRates(a)[k])

SameRankedRates(a, b) == \A k \in 1..4 : RateEq(RankedRates(a)[k], RankedRates(b)[k])

\* C2 (amended): a record that is at least as large in every ranked rate and
\* larger in one is never ranked below the other; records with the same
\* ranked rates compare equal whatever their atcg_match_rate; no comparison
\* panics.
C2_PriorityIsMonotone ==
    \A a, b \in BagToSet(results) :
        /\ cmp(a, b) # "Panic"
        /\ Dominates(a, b) =>
              cmp(a, b) \in {"Greater", "Equal"} /\ cmp(b, a) \in {"Less", "Equal"}
        /\ SameRankedRates(a, b) => cmp(a, b) = "Equal"

\* The collection holds two records that differ in atcg_match_rate alone and
\* a third one that they both dominate.
C2_Witness ==
    /\ RankRecord(9, 8, 0, 0, 0) \in BagToSet(results)
    /\ RankRecord(9, 8, 0, 0, 5) \in BagToSet(results)
    /\ RankRecord(5, 8, 0, 0, 0) \in BagToSet(results)

====
